---- MODULE Spec2Model ----
(***************************************************************************)
(* ByteBuffer (src/src/lib.rs): a fixed-length byte store with a write     *)
(* cursor and a read cursor, bounds-checked little-endian writes and       *)
(* reads, and two error kinds.                                             *)
(*                                                                         *)
(* Offsets are 0-based as in the source; the store is a TLA+ sequence, so  *)
(* the byte at offset o is data[o + 1].                                    *)
(*                                                                         *)
(* A u32 is kept as its two 16-bit halves [lo, hi] (value hi*65536 + lo),  *)
(* because the model checker's integers stop at 2^31 - 1.                  *)
(***************************************************************************)
EXTENDS Integers, Sequences, FiniteSets, TLC

\* ------------------------------------------------------------------ bounds
MaxCap == 5         \* largest capacity given to with_capacity
MaxWrite == 2       \* longest slice given to write_bytes
UsizeBits == 16     \* width of usize (the narrowest Rust supports)
MaxPlan == 2        \* most values of one round trip
CapSlack == 1       \* round trip: capacity beyond the bytes written

UsizeMod == 2 ^ UsizeBits
UsizeMax == UsizeMod - 1
IsizeMax == UsizeMod \div 2 - 1

Min(a, b) == IF a < b THEN a ELSE b

\* Byte values the calls are tried with, and the u16 / u32 values made of them.
ByteVals == {0, 255}
\* Their two bytes differ, so that the byte order shows: 0x00FF and 0xFF00.
U16Vals == {255, 65280}
\* Likewise, and no byte palindromes: 0x000000FF and 0xFFFFFF00.
U32Vals == {[lo |-> 255, hi |-> 0], [lo |-> 65280, hi |-> 65535]}
\* Sizes read_bytes is tried with: the small ones, and usize::MAX.
ReadSizes == (0 .. (MaxCap + 1)) \cup {UsizeMax}

RECURSIVE SeqsUpTo(_, _)
SeqsUpTo(S, n) ==
    IF n = 0 THEN {<<>>}
    ELSE LET shorter == SeqsUpTo(S, n - 1)
         IN shorter \cup {Append(s, x) : s \in {t \in shorter : Len(t) = n - 1}, x \in S}

\* ------------------------------------------------------------------- state
VARIABLES
    data,             \* ByteBuffer.data
    wpos,             \* ByteBuffer.wpos
    rpos,             \* ByteBuffer.rpos
    overflow_checks,  \* build profile: TRUE, usize overflow panics; FALSE, it wraps
    ctor,             \* how the buffer was constructed, and with which capacity
    call,             \* the last call made on the buffer, with its arguments
    res,              \* what the last call returned
    pre,              \* data, wpos, rpos as they were when the last call was made
    cleared,          \* whether clear() has ever been called on the buffer
    accepted,         \* bytes accepted by successful writes since the last clear()
    plan,             \* round trip: the values to write and read back
    step              \* round trip: calls made so far

vars ==
    <<data, wpos, rpos, overflow_checks, ctor, call, res, pre, cleared, accepted, plan, step>>

\* ------------------------------------------------------------------ values
Zero32 == [lo |-> 0, hi |-> 0]
\* `x as u32` for a u8 or u16 x
as_u32(x) == [lo |-> x, hi |-> 0]

Result(tag, err, bytes, u32, n) ==
    [tag |-> tag, err |-> err, bytes |-> bytes, u32 |-> u32, n |-> n]
Ok == Result("Ok", "None", <<>>, Zero32, 0)
OkBytes(b) == Result("Ok", "None", b, Zero32, 0)
OkU32(v) == Result("Ok", "None", <<>>, v, 0)
OkUsize(n) == Result("Ok", "None", <<>>, Zero32, n)
Err(e) == Result("Err", e, <<>>, Zero32, 0)
Panic == Result("Panic", "None", <<>>, Zero32, 0)
NoResult == Result("None", "None", <<>>, Zero32, 0)

Call(op, bytes, u32, n) == [op |-> op, bytes |-> bytes, u32 |-> u32, n |-> n]

Buffer(d, w, r) == [data |-> d, wpos |-> w, rpos |-> r]
Self == Buffer(data, wpos, rpos)
Outcome(self, r) == [self |-> self, res |-> r]

\* usize addition: the sum modulo 2^UsizeBits, and whether it overflowed
UsizeAdd(a, b) == [val |-> (a + b) % UsizeMod, ovf |-> a + b > UsizeMax]
\* usize subtraction, likewise
UsizeSub(a, b) == [val |-> (a - b) % UsizeMod, ovf |-> a < b]

\* &d[start..end]: Rust panics unless start <= end <= d.len()
SliceOk(d, start, end) == start <= end /\ end <= Len(d)
Slice(d, start, end) == SubSeq(d, start + 1, end)

\* byteorder's LittleEndian, as the source uses it
LittleEndian_write_u16(val) == <<val % 256, val \div 256>>
LittleEndian_write_u32(val) ==
    <<val.lo % 256, val.lo \div 256, val.hi % 256, val.hi \div 256>>
LittleEndian_read_u16(b) == b[1] + 256 * b[2]
LittleEndian_read_u32(b) == [lo |-> b[1] + 256 * b[2], hi |-> b[3] + 256 * b[4]]

\* ------------------------------------------------------------ construction
with_capacity(cap) == Buffer([i \in 1 .. cap |-> 0], 0, 0)
default == Buffer(<<>>, 0, 0)

\* -------------------------------------------------------------- inspection
len(self) == Len(self.data)

\* Mutant of read_remain: the bytes between the read and the write cursor.
read_remain_wpos(self) ==
    LET d == UsizeSub(self.wpos, self.rpos)
    IN IF d.ovf /\ overflow_checks THEN Outcome(self, Panic)
       ELSE Outcome(self, OkUsize(d.val))

read_remain(self) ==
    LET d == UsizeSub(len(self), self.rpos)
    IN IF d.ovf /\ overflow_checks THEN Outcome(self, Panic)
       ELSE Outcome(self, OkUsize(d.val))

get_rpos(self) == self.rpos
get_wpos(self) == self.wpos
to_bytes(self) == self.data

\* ------------------------------------------------------------------ writes
\* Mutant of write_loop: the byte is stored, the cursor is not moved on.
RECURSIVE write_loop_stuck(_, _, _)
write_loop_stuck(self, bytes, i) ==
    IF i > Len(bytes) THEN Outcome(self, Ok)
    ELSE IF self.wpos >= Len(self.data) THEN Outcome(self, Panic)
    ELSE write_loop_stuck(Buffer([self.data EXCEPT ![self.wpos + 1] = bytes[i]],
                                 self.wpos, self.rpos),
                          bytes, i + 1)

\* The loop of write_bytes from its i-th byte on: each byte is stored at wpos
\* (a panic when wpos is out of range) and wpos moves on by one.
RECURSIVE write_loop(_, _, _)
write_loop(self, bytes, i) ==
    IF i > Len(bytes) THEN Outcome(self, Ok)
    ELSE IF self.wpos >= Len(self.data) THEN Outcome(self, Panic)
    ELSE write_loop(Buffer([self.data EXCEPT ![self.wpos + 1] = bytes[i]],
                           self.wpos + 1, self.rpos),
                    bytes, i + 1)

\* Mutant of write_bytes: the bound is checked byte by byte, so the bytes that
\* fit are stored before the call fails and puts wpos back.
write_bytes_partial(self, bytes) ==
    LET room == IF self.wpos <= Len(self.data) THEN Len(self.data) - self.wpos ELSE 0
        fit == Min(Len(bytes), room)
        o == write_loop(self, SubSeq(bytes, 1, fit), 1)
    IN IF fit < Len(bytes)
       THEN Outcome(Buffer(o.self.data, self.wpos, self.rpos), Err("WriteOverflow"))
       ELSE o

\* Mutant of write_bytes: the bound check is >=, as in the integer reads.
write_bytes_ge(self, bytes) ==
    LET size == UsizeAdd(Len(bytes), self.wpos)
    IN IF size.ovf /\ overflow_checks THEN Outcome(self, Panic)
       ELSE IF size.val >= Len(self.data) THEN Outcome(self, Err("WriteOverflow"))
       ELSE write_loop(self, bytes, 1)

\* Mutant of write_bytes: the bytes are pushed onto the store, which grows.
write_bytes_push(self, bytes) ==
    Outcome(Buffer(self.data \o bytes, self.wpos + Len(bytes), self.rpos), Ok)

write_bytes(self, bytes) ==
    LET size == UsizeAdd(Len(bytes), self.wpos)
    IN IF size.ovf /\ overflow_checks THEN Outcome(self, Panic)
       ELSE IF size.val > Len(self.data) THEN Outcome(self, Err("WriteOverflow"))
       ELSE write_loop(self, bytes, 1)

\* Mutant of clear: the store is zeroed as well.
clear_zero(self) == Buffer([i \in 1 .. Len(self.data) |-> 0], 0, 0)

\* Mutant of clear: only the read cursor is reset.
clear_rpos_only(self) == Buffer(self.data, self.wpos, 0)

clear(self) == Buffer(self.data, 0, 0)

write_u8(self, val) == write_bytes(self, <<val>>)
write_u16(self, val) == write_bytes(self, LittleEndian_write_u16(val))
\* Mutant of write_u32: the bytes go out most significant first (big-endian).
write_u32_be(self, val) ==
    write_bytes(self, <<val.hi \div 256, val.hi % 256, val.lo \div 256, val.lo % 256>>)

write_u32(self, val) == write_bytes(self, LittleEndian_write_u32(val))

\* ------------------------------------------------------------------- reads
\* Mutant of read_bytes: the cursor is set to size, not moved on by size.
read_bytes_abs(self, size) ==
    LET end == UsizeAdd(self.rpos, size)
    IN IF end.ovf /\ overflow_checks THEN Outcome(self, Panic)
       ELSE IF end.val > Len(self.data) THEN Outcome(self, Err("ReadOverflow"))
       ELSE IF ~SliceOk(self.data, self.rpos, end.val) THEN Outcome(self, Panic)
       ELSE Outcome(Buffer(self.data, self.wpos, size),
                    OkBytes(Slice(self.data, self.rpos, end.val)))

\* Mutant of read_bytes: the read is bounded by the write cursor, not the capacity.
read_bytes_wpos(self, size) ==
    LET end == UsizeAdd(self.rpos, size)
    IN IF end.ovf /\ overflow_checks THEN Outcome(self, Panic)
       ELSE IF end.val > self.wpos THEN Outcome(self, Err("ReadOverflow"))
       ELSE IF ~SliceOk(self.data, self.rpos, end.val) THEN Outcome(self, Panic)
       ELSE Outcome(Buffer(self.data, self.wpos, end.val),
                    OkBytes(Slice(self.data, self.rpos, end.val)))

\* Mutant of read_bytes: the bound check is >=, as in the integer reads.
read_bytes_ge(self, size) ==
    LET end == UsizeAdd(self.rpos, size)
    IN IF end.ovf /\ overflow_checks THEN Outcome(self, Panic)
       ELSE IF end.val >= Len(self.data) THEN Outcome(self, Err("ReadOverflow"))
       ELSE IF ~SliceOk(self.data, self.rpos, end.val) THEN Outcome(self, Panic)
       ELSE Outcome(Buffer(self.data, self.wpos, end.val),
                    OkBytes(Slice(self.data, self.rpos, end.val)))

read_bytes(self, size) ==
    LET end == UsizeAdd(self.rpos, size)
    IN IF end.ovf /\ overflow_checks THEN Outcome(self, Panic)
       ELSE IF end.val > Len(self.data) THEN Outcome(self, Err("ReadOverflow"))
       ELSE IF ~SliceOk(self.data, self.rpos, end.val) THEN Outcome(self, Panic)
       ELSE Outcome(Buffer(self.data, self.wpos, end.val),
                    OkBytes(Slice(self.data, self.rpos, end.val)))

\* Mutant of read_u8_as_u32: the bound check is >, so a read at the end passes it.
read_u8_as_u32_gt(self) ==
    IF self.rpos > Len(self.data) THEN Outcome(self, Err("ReadOverflow"))
    ELSE LET pos == self.rpos
             after == Buffer(self.data, self.wpos, self.rpos + 1)
         IN IF pos >= Len(self.data) THEN Outcome(after, Panic)
            ELSE Outcome(after, OkU32(as_u32(self.data[pos + 1])))

\* Mutant of read_u8_as_u32: the write cursor is moved on, not the read cursor.
read_u8_as_u32_wpos(self) ==
    IF self.rpos >= Len(self.data) THEN Outcome(self, Err("ReadOverflow"))
    ELSE LET pos == self.rpos
             after == Buffer(self.data, self.wpos + 1, self.rpos)
         IN IF pos >= Len(self.data) THEN Outcome(after, Panic)
            ELSE Outcome(after, OkU32(as_u32(self.data[pos + 1])))

read_u8_as_u32(self) ==
    IF self.rpos >= Len(self.data) THEN Outcome(self, Err("ReadOverflow"))
    ELSE LET pos == self.rpos
             after == Buffer(self.data, self.wpos, self.rpos + 1)
         IN IF pos >= Len(self.data) THEN Outcome(after, Panic)
            ELSE Outcome(after, OkU32(as_u32(self.data[pos + 1])))

\* Mutant of read_u16_as_u32: the cursor is moved on before the bound check.
read_u16_as_u32_eager(self) ==
    LET start == self.rpos
        end == self.rpos + 2
        after == Buffer(self.data, self.wpos, self.rpos + 2)
    IN IF end >= Len(self.data) THEN Outcome(after, Err("ReadOverflow"))
       ELSE IF ~SliceOk(self.data, start, end) THEN Outcome(after, Panic)
       ELSE Outcome(after,
                    OkU32(as_u32(LittleEndian_read_u16(Slice(self.data, start, end)))))

read_u16_as_u32(self) ==
    IF self.rpos + 2 >= Len(self.data) THEN Outcome(self, Err("ReadOverflow"))
    ELSE LET start == self.rpos
             end == self.rpos + 2
             after == Buffer(self.data, self.wpos, self.rpos + 2)
         IN IF ~SliceOk(self.data, start, end) THEN Outcome(after, Panic)
            ELSE Outcome(after,
                         OkU32(as_u32(LittleEndian_read_u16(Slice(self.data, start, end)))))

\* Mutant of read_u32: the wrong error kind is returned.
read_u32_wrongerr(self) ==
    IF self.rpos + 4 >= Len(self.data) THEN Outcome(self, Err("WriteOverflow"))
    ELSE LET start == self.rpos
             end == self.rpos + 4
             after == Buffer(self.data, self.wpos, self.rpos + 4)
         IN IF ~SliceOk(self.data, start, end) THEN Outcome(after, Panic)
            ELSE Outcome(after, OkU32(LittleEndian_read_u32(Slice(self.data, start, end))))

\* Mutant of read_u32: the bound check is >, as in read_bytes.
read_u32_gt(self) ==
    IF self.rpos + 4 > Len(self.data) THEN Outcome(self, Err("ReadOverflow"))
    ELSE LET start == self.rpos
             end == self.rpos + 4
             after == Buffer(self.data, self.wpos, self.rpos + 4)
         IN IF ~SliceOk(self.data, start, end) THEN Outcome(after, Panic)
            ELSE Outcome(after, OkU32(LittleEndian_read_u32(Slice(self.data, start, end))))

read_u32(self) ==
    IF self.rpos + 4 >= Len(self.data) THEN Outcome(self, Err("ReadOverflow"))
    ELSE LET start == self.rpos
             end == self.rpos + 4
             after == Buffer(self.data, self.wpos, self.rpos + 4)
         IN IF ~SliceOk(self.data, start, end) THEN Outcome(after, Panic)
            ELSE Outcome(after, OkU32(LittleEndian_read_u32(Slice(self.data, start, end))))

\* ----------------------------------------------------------------- actions
\* A panic ends the process: no call follows it.
Running == res.tag # "Panic"

WriteOps == {"write_bytes", "write_u8", "write_u16", "write_u32"}
ReadOps == {"read_bytes", "read_u8_as_u32", "read_u16_as_u32", "read_u32"}

\* The number of bytes the write c asks to write.
WriteLenOf(c) ==
    IF c.op = "write_bytes" THEN Len(c.bytes)
    ELSE IF c.op = "write_u8" THEN 1
    ELSE IF c.op = "write_u16" THEN 2
    ELSE 4

\* The number of bytes the read c asks to read.
ReadLenOf(c) ==
    IF c.op = "read_bytes" THEN c.n
    ELSE IF c.op = "read_u8_as_u32" THEN 1
    ELSE IF c.op = "read_u16_as_u32" THEN 2
    ELSE 4

\* The call c was made and came back with outcome o.
Returns(c, o) ==
    /\ pre' = Self
    /\ cleared' = (cleared \/ c.op = "clear")
    /\ accepted' = IF c.op = "clear" THEN 0
                   ELSE IF c.op \in WriteOps /\ o.res.tag = "Ok" THEN accepted + WriteLenOf(c)
                   ELSE accepted
    /\ call' = c
    /\ data' = o.self.data
    /\ wpos' = o.self.wpos
    /\ rpos' = o.self.rpos
    /\ res' = o.res
    /\ UNCHANGED <<overflow_checks, ctor>>

CallWriteBytes ==
    /\ Running
    /\ \E bytes \in SeqsUpTo(ByteVals, Min(MaxWrite, IsizeMax)) :
          Returns(Call("write_bytes", bytes, Zero32, 0), write_bytes(Self, bytes))
    /\ UNCHANGED <<plan, step>>

CallWriteU8 ==
    /\ Running
    /\ \E val \in ByteVals :
          Returns(Call("write_u8", <<>>, Zero32, val), write_u8(Self, val))
    /\ UNCHANGED <<plan, step>>

CallWriteU16 ==
    /\ Running
    /\ \E val \in U16Vals :
          Returns(Call("write_u16", <<>>, Zero32, val), write_u16(Self, val))
    /\ UNCHANGED <<plan, step>>

CallWriteU32 ==
    /\ Running
    /\ \E val \in U32Vals :
          Returns(Call("write_u32", <<>>, val, 0), write_u32(Self, val))
    /\ UNCHANGED <<plan, step>>

CallClear ==
    /\ Running
    /\ Returns(Call("clear", <<>>, Zero32, 0), Outcome(clear(Self), Ok))
    /\ UNCHANGED <<plan, step>>

CallReadBytes ==
    /\ Running
    /\ \E size \in ReadSizes :
          Returns(Call("read_bytes", <<>>, Zero32, size), read_bytes(Self, size))
    /\ UNCHANGED <<plan, step>>

CallReadU8 ==
    /\ Running
    /\ Returns(Call("read_u8_as_u32", <<>>, Zero32, 0), read_u8_as_u32(Self))
    /\ UNCHANGED <<plan, step>>

CallReadU16 ==
    /\ Running
    /\ Returns(Call("read_u16_as_u32", <<>>, Zero32, 0), read_u16_as_u32(Self))
    /\ UNCHANGED <<plan, step>>

CallReadU32 ==
    /\ Running
    /\ Returns(Call("read_u32", <<>>, Zero32, 0), read_u32(Self))
    /\ UNCHANGED <<plan, step>>

CallReadRemain ==
    /\ Running
    /\ Returns(Call("read_remain", <<>>, Zero32, 0), read_remain(Self))
    /\ UNCHANGED <<plan, step>>

\* ------------------------------------------------------------ specification
Constructed(c, b) ==
    /\ ctor = c
    /\ data = b.data
    /\ wpos = b.wpos
    /\ rpos = b.rpos
    /\ overflow_checks \in BOOLEAN
    /\ call = Call("new", <<>>, Zero32, 0)
    /\ res = NoResult
    /\ pre = b
    /\ cleared = FALSE
    /\ accepted = 0

Init ==
    /\ \/ \E cap \in 0 .. Min(MaxCap, IsizeMax) :
             Constructed([kind |-> "with_capacity", cap |-> cap], with_capacity(cap))
       \/ Constructed([kind |-> "default", cap |-> 0], default)
    /\ plan = <<>>
    /\ step = 0

Next ==
    \/ CallWriteBytes
    \/ CallWriteU8
    \/ CallWriteU16
    \/ CallWriteU32
    \/ CallClear
    \/ CallReadBytes
    \/ CallReadU8
    \/ CallReadU16
    \/ CallReadU32
    \/ CallReadRemain

Spec == Init /\ [][Next]_vars

\* --------------------------------------------------------------- round trip
\* A fresh buffer, then every value of the plan written in order, then every
\* value read back in the same order and width.
PlanItems ==
    {[width |-> 1, val |-> as_u32(v)] : v \in ByteVals}
        \cup {[width |-> 2, val |-> as_u32(v)] : v \in U16Vals}
        \cup {[width |-> 4, val |-> v] : v \in U32Vals}

RECURSIVE TotalBytes(_)
TotalBytes(p) == IF p = <<>> THEN 0 ELSE Head(p).width + TotalBytes(Tail(p))

WriteItem(self, item) ==
    IF item.width = 1 THEN write_u8(self, item.val.lo)
    ELSE IF item.width = 2 THEN write_u16(self, item.val.lo)
    ELSE write_u32(self, item.val)

ReadItem(self, item) ==
    IF item.width = 1 THEN read_u8_as_u32(self)
    ELSE IF item.width = 2 THEN read_u16_as_u32(self)
    ELSE read_u32(self)

WriteOp(item) ==
    IF item.width = 1 THEN "write_u8" ELSE IF item.width = 2 THEN "write_u16" ELSE "write_u32"
ReadOp(item) ==
    IF item.width = 1 THEN "read_u8_as_u32"
    ELSE IF item.width = 2 THEN "read_u16_as_u32" ELSE "read_u32"

RTWrite ==
    /\ Running
    /\ step < Len(plan)
    /\ LET item == plan[step + 1]
       IN Returns(IF item.width = 4 THEN Call(WriteOp(item), <<>>, item.val, 0)
                  ELSE Call(WriteOp(item), <<>>, Zero32, item.val.lo),
                  WriteItem(Self, item))
    /\ step' = step + 1
    /\ UNCHANGED plan

RTRead ==
    /\ Running
    /\ Len(plan) <= step /\ step < 2 * Len(plan)
    /\ LET item == plan[step - Len(plan) + 1]
       IN Returns(Call(ReadOp(item), <<>>, Zero32, 0), ReadItem(Self, item))
    /\ step' = step + 1
    /\ UNCHANGED plan

InitRT ==
    /\ plan \in SeqsUpTo(PlanItems, MaxPlan) \ {<<>>}
    /\ \E cap \in TotalBytes(plan) .. Min(TotalBytes(plan) + CapSlack, IsizeMax) :
          Constructed([kind |-> "with_capacity", cap |-> cap], with_capacity(cap))
    /\ step = 0

NextRT == RTWrite \/ RTRead

SpecRT == InitRT /\ [][NextRT]_vars

\* ------------------------------------------------------------------ claims
\* The number of bytes the last call, a write, was asked to write.
WriteLen == WriteLenOf(call)

\* The number of bytes the last call, a read, was asked to read.
ReadLen == ReadLenOf(call)

Unchanged == Self = pre

\* C1: in every reachable state, after any sequence of calls, successful or
\* failing, 0 <= wpos <= len() and 0 <= rpos <= len().
C1_CursorsInRange ==
    /\ 0 <= wpos /\ wpos <= len(Self)
    /\ 0 <= rpos /\ rpos <= len(Self)

\* Both cursors stand at the end of a non-empty store and a further read was refused.
C1_Witness ==
    /\ len(Self) > 0 /\ wpos = len(Self) /\ rpos = len(Self)
    /\ call.op = "read_u8_as_u32" /\ res.tag = "Err"

\* C2: write_bytes(b) with wpos + |b| <= len() succeeds, the store holds b at
\* offsets [old wpos, old wpos + |b|), wpos has advanced by exactly |b|, and
\* every other byte of the store is unchanged.
C2_WriteBytesEffect ==
    (call.op = "write_bytes" /\ pre.wpos + Len(call.bytes) <= Len(pre.data)) =>
        /\ res = Ok
        /\ wpos = pre.wpos + Len(call.bytes)
        /\ rpos = pre.rpos
        /\ Len(data) = Len(pre.data)
        /\ \A o \in 0 .. (Len(pre.data) - 1) :
              data[o + 1] = IF pre.wpos <= o /\ o < pre.wpos + Len(call.bytes)
                            THEN call.bytes[o - pre.wpos + 1]
                            ELSE pre.data[o + 1]

\* Two different bytes were written in the middle of a store whose bytes on
\* either side are not all zero.
C2_Witness ==
    /\ call.op = "write_bytes" /\ res.tag = "Ok"
    /\ call.bytes = <<255, 0>>
    /\ pre.wpos > 0 /\ wpos < Len(data)
    /\ data[1] = 255 /\ data[Len(data)] = 255
    /\ pre.data[pre.wpos + 1] = 0 /\ pre.data[pre.wpos + 2] = 255

\* C3: a write of n bytes fails with WriteOverflow exactly when
\* wpos + n > len(), and a failing write leaves wpos, rpos and every byte of
\* the store unchanged.
C3_WriteOverflow ==
    call.op \in WriteOps =>
        IF pre.wpos + WriteLen > Len(pre.data)
        THEN res = Err("WriteOverflow") /\ Unchanged
        ELSE res = Ok

\* write_u32 was refused where a prefix of its four bytes would have fitted.
C3_Witness ==
    /\ call.op = "write_u32" /\ res.tag = "Err"
    /\ pre.wpos > 0 /\ pre.wpos + 2 <= Len(pre.data)

\* C4: read_bytes(size) fails with ReadOverflow exactly when
\* rpos + size > len(); otherwise it returns the store bytes at offsets
\* [rpos, rpos + size) in order and advances rpos by exactly size.
C4_ReadBytes ==
    call.op = "read_bytes" =>
        IF pre.rpos + call.n > Len(pre.data)
        THEN res = Err("ReadOverflow")
        ELSE /\ res = OkBytes([i \in 1 .. call.n |-> pre.data[pre.rpos + i]])
             /\ rpos = pre.rpos + call.n

\* C5: round trip. On a fresh buffer whose capacity is at least the number of
\* bytes written, every write of the plan succeeds, and every read succeeds
\* and returns the value written, zero-extended to 32 bits.
C5_RoundTrip ==
    (plan # <<>> /\ step > 0) =>
        /\ res.tag = "Ok"
        /\ step > Len(plan) => res.u32 = plan[step - Len(plan)].val

\* C6: a read that returns ReadOverflow leaves rpos, wpos and every byte of
\* the store as they were before the call.
C6_FailedReadNoEffect ==
    (call.op \in ReadOps /\ res.tag = "Err") => Unchanged

\* read_u16_as_u32 was refused with the read cursor inside a written store.
C6_Witness ==
    /\ call.op = "read_u16_as_u32" /\ res.tag = "Err"
    /\ pre.rpos > 0 /\ pre.rpos < Len(pre.data) /\ pre.wpos > 0

C7_WitnessOk ==
    /\ call.op = "read_u32" /\ res = OkU32([lo |-> 65280, hi |-> 65535])

\* C8: no public operation ever aborts: every request that exceeds the
\* capacity comes back as a ReadOverflow or WriteOverflow value.
C8_NoAbort == res.tag # "Panic"

\* C9: capacity is fixed: len() and the length of to_bytes() stay the
\* capacity the buffer was constructed with, 0 for a default-constructed one.
C9_CapacityFixed ==
    /\ len(Self) = ctor.cap
    /\ Len(to_bytes(Self)) = ctor.cap
    /\ ctor.kind = "default" => len(Self) = 0

\* A buffer of positive capacity was filled, read to its end and cleared.
C9_Witness ==
    /\ ctor.kind = "with_capacity" /\ ctor.cap > 0
    /\ call.op = "clear" /\ pre.wpos = ctor.cap /\ pre.rpos = ctor.cap

\* C10, as claimed: no operation ever makes wpos or rpos smaller than it was
\* before the call.
C10_CursorsMonotone == wpos >= pre.wpos /\ rpos >= pre.rpos

\* C10, amended: no operation other than clear() makes wpos or rpos smaller
\* than it was before the call; clear() sets both to 0.
C10_MonotoneExceptClear ==
    /\ call.op # "clear" => (wpos >= pre.wpos /\ rpos >= pre.rpos)
    /\ call.op = "clear" => (wpos = 0 /\ rpos = 0)

\* clear() was called with both cursors advanced.
C10_Witness == call.op = "clear" /\ pre.wpos > 0 /\ pre.rpos > 0 /\ wpos = 0 /\ rpos = 0

\* C11: clear() sets wpos and rpos to 0 and leaves len() and every byte of
\* the store unchanged, so to_bytes() is the same before and after; the bytes
\* written before stay readable from offset 0.
C11_ClearEffect ==
    call.op = "clear" =>
        /\ res = Ok
        /\ get_wpos(Self) = 0 /\ get_rpos(Self) = 0
        /\ len(Self) = len(pre)
        /\ to_bytes(Self) = to_bytes(pre)
        /\ \A k \in 0 .. Len(pre.data) :
              read_bytes(Self, k).res = OkBytes([i \in 1 .. k |-> pre.data[i]])

\* clear() was called on a buffer holding non-zero written bytes, partly read.
C11_Witness ==
    /\ call.op = "clear"
    /\ pre.wpos >= 2 /\ pre.rpos >= 1
    /\ pre.data[1] = 255 /\ pre.data[2] = 255

\* C12: in every state read_bytes(0) succeeds with an empty sequence and
\* write_bytes of an empty slice succeeds, and both leave wpos, rpos and the
\* store unchanged.
C12_EmptyReadWrite ==
    /\ (call.op = "read_bytes" /\ call.n = 0) => (res = OkBytes(<<>>) /\ Unchanged)
    /\ (call.op = "write_bytes" /\ call.bytes = <<>>) => (res = Ok /\ Unchanged)

\* read_bytes(0) was called with both cursors at the end of a non-empty store.
C12_Witness ==
    /\ call.op = "read_bytes" /\ call.n = 0 /\ res.tag = "Ok"
    /\ Len(pre.data) > 0 /\ pre.rpos = Len(pre.data) /\ pre.wpos = Len(pre.data)

\* write_bytes(&[]) was called on a zero-capacity buffer.
C12_WitnessEmptyWrite ==
    /\ call.op = "write_bytes" /\ call.bytes = <<>> /\ res.tag = "Ok"
    /\ Len(pre.data) = 0

\* C13: write_u8(v) has the result and final state of write_bytes([v]),
\* write_u16(v) those of write_bytes([v mod 256, v div 256]), and write_u32(v)
\* those of write_bytes of the four bytes of v, least significant first.
C13_IntegerWritesAsBytes ==
    /\ call.op = "write_u8" =>
          Outcome(Self, res) = write_bytes(pre, <<call.n>>)
    /\ call.op = "write_u16" =>
          Outcome(Self, res) = write_bytes(pre, <<call.n % 256, call.n \div 256>>)
    /\ call.op = "write_u32" =>
          Outcome(Self, res) =
              write_bytes(pre, <<call.u32.lo % 256, call.u32.lo \div 256,
                                 call.u32.hi % 256, call.u32.hi \div 256>>)

\* write_u32(0xFFFFFF00) succeeded: the store holds 00 FF FF FF at the old wpos.
C13_Witness ==
    /\ call.op = "write_u32" /\ res.tag = "Ok"
    /\ call.u32 = [lo |-> 65280, hi |-> 65535]
    /\ SubSeq(data, pre.wpos + 1, pre.wpos + 4) = <<0, 255, 255, 255>>

\* write_u16(0x00FF) succeeded: the store holds FF 00 at the old wpos.
C13_WitnessU16 ==
    /\ call.op = "write_u16" /\ res.tag = "Ok" /\ call.n = 255
    /\ SubSeq(data, pre.wpos + 1, pre.wpos + 2) = <<255, 0>>

\* C14: no write, successful or failing, changes rpos; no read, successful or
\* failing, changes wpos or a byte of the store; wpos is increased only by
\* writes and rpos only by reads.
C14_CursorsIndependent ==
    /\ call.op \in WriteOps => rpos = pre.rpos
    /\ call.op \in ReadOps => (wpos = pre.wpos /\ data = pre.data)
    /\ wpos > pre.wpos => call.op \in WriteOps
    /\ rpos > pre.rpos => call.op \in ReadOps

\* A read succeeded on a buffer with written non-zero bytes and wpos > 0.
C14_Witness ==
    /\ call.op \in ReadOps /\ res.tag = "Ok"
    /\ rpos > pre.rpos /\ pre.wpos > 0 /\ pre.data[1] = 255

\* The last call, a read, made on the buffer self instead.
ReadOf(c, self) ==
    IF c.op = "read_bytes" THEN read_bytes(self, c.n)
    ELSE IF c.op = "read_u8_as_u32" THEN read_u8_as_u32(self)
    ELSE IF c.op = "read_u16_as_u32" THEN read_u16_as_u32(self)
    ELSE read_u32(self)

\* C15: whether a read succeeds depends on rpos and len() only: a buffer with
\* the same store and rpos and any other wpos gives the same result and the
\* same new rpos for every read.
C15_ReadsIgnoreWpos ==
    call.op \in ReadOps =>
        \A w \in 0 .. Len(pre.data) :
            LET other == ReadOf(call, Buffer(pre.data, w, pre.rpos))
            IN /\ other.res = res
               /\ other.self.rpos = rpos
               /\ other.self.data = data
               /\ other.self.wpos = w

\* A read of offsets never written succeeded: nothing was written, clear() was
\* never called, and rpos is beyond wpos.
C15_Witness ==
    /\ call.op \in ReadOps /\ res.tag = "Ok"
    /\ ~cleared /\ wpos = 0 /\ pre.rpos > 0 /\ rpos > pre.rpos

\* What read_remain() returns on the buffer self.
Remain(self) == read_remain(self).res.n

\* C16: read_remain() is len() - rpos, between 0 and len(); a successful read
\* of k bytes lowers it by exactly k, a failing read and every write leave it
\* unchanged, and clear() restores it to len().
C16_ReadRemain ==
    /\ read_remain(Self) = Outcome(Self, OkUsize(len(Self) - rpos))
    /\ 0 <= Remain(Self) /\ Remain(Self) <= len(Self)
    /\ call.op = "read_remain" => (res = OkUsize(len(pre) - pre.rpos) /\ Unchanged)
    /\ (call.op \in ReadOps /\ res.tag = "Ok") => Remain(Self) = Remain(pre) - ReadLen
    /\ (call.op \in ReadOps /\ res.tag = "Err") => Remain(Self) = Remain(pre)
    /\ call.op \in WriteOps => Remain(Self) = Remain(pre)
    /\ call.op = "clear" => Remain(Self) = len(Self)

\* read_remain() was called with the read cursor advanced beyond the write cursor.
C16_Witness ==
    /\ call.op = "read_remain" /\ res.tag = "Ok"
    /\ res.n > 0 /\ pre.rpos > pre.wpos

\* C17: a write returns success or WriteOverflow, never ReadOverflow; a read
\* returns success or ReadOverflow, never WriteOverflow.
C17_ErrorKinds ==
    /\ (call.op \in WriteOps /\ res.tag # "Panic") =>
          (res = Ok \/ res = Err("WriteOverflow"))
    /\ (call.op \in ReadOps /\ res.tag # "Panic") =>
          ((res.tag = "Ok" /\ res.err = "None") \/ res = Err("ReadOverflow"))

\* read_u32 was refused on a buffer that is full, where a write would be refused too.
C17_Witness ==
    /\ call.op = "read_u32" /\ res = Err("ReadOverflow")
    /\ Len(pre.data) > 0 /\ pre.wpos = Len(pre.data)

\* C18: on a buffer on which clear() has never been called, every store byte
\* at an offset >= wpos is zero.
C18_UnwrittenTailZero ==
    ~cleared => \A o \in wpos .. (Len(data) - 1) : data[o + 1] = 0

\* Never cleared: non-zero bytes were written, a write that did not fit was
\* refused, and the read cursor is beyond the write cursor.
C18_Witness ==
    /\ ~cleared
    /\ call.op \in WriteOps /\ res.tag = "Err" /\ WriteLen > 1
    /\ wpos > 0 /\ wpos < Len(data) /\ data[wpos] = 255
    /\ rpos > wpos

\* C18, after clear(): a byte written before the clear is in the store at an
\* offset >= wpos.
C18_WitnessAfterClear ==
    /\ cleared
    /\ \E o \in wpos .. (Len(data) - 1) : data[o + 1] # 0

\* C19: between two clear() calls the bytes accepted by successful writes
\* never exceed len(); once wpos = len() every write of at least one byte
\* fails with WriteOverflow and wpos stays there until clear() is called;
\* right after clear() a write of any n <= len() bytes succeeds.
C19_WriteBudget ==
    /\ accepted <= len(Self)
    /\ (call.op \in WriteOps /\ WriteLen >= 1 /\ pre.wpos = Len(pre.data)) =>
          (res = Err("WriteOverflow") /\ accepted = Len(data))
    /\ (pre.wpos = Len(pre.data) /\ call.op # "clear") => wpos = Len(data)
    /\ call.op = "clear" =>
          /\ accepted = 0
          /\ \A n \in 0 .. Len(data) : write_bytes(Self, [i \in 1 .. n |-> 255]).res = Ok
          /\ Len(data) >= 1 => write_u8(Self, 255).res = Ok
          /\ Len(data) >= 2 => write_u16(Self, 255).res = Ok
          /\ Len(data) >= 4 => write_u32(Self, [lo |-> 255, hi |-> 0]).res = Ok

\* In a second cycle, after a clear(), the buffer was filled again and a
\* further write was refused.
C19_Witness ==
    /\ cleared
    /\ call.op \in WriteOps /\ res = Err("WriteOverflow")
    /\ Len(data) > 0 /\ pre.wpos = Len(pre.data) /\ accepted = Len(data)

\* clear() was called on a full buffer of positive capacity.
C19_WitnessClear ==
    /\ call.op = "clear" /\ Len(data) >= 4 /\ pre.wpos = Len(pre.data)

====
